---------------------------- MODULE Spec2Model ----------------------------
(***************************************************************************)
(* sest: a log-to-event bridge.  The model covers the incremental          *)
(* tail-and-extract pipeline of src/log_file.go (LogFile: an open file     *)
(* handle plus a tracked byte offset) and src/main.go (eventLoop,          *)
(* handleWrite: dispatch of watcher signals, the read of the new bytes and *)
(* the pass of every rule over the buffer of that read).                   *)
(*                                                                         *)
(* Bytes are one-character strings.  A file is the sequence of its bytes;  *)
(* positions are counted from 0 as in the code, so the byte at position i  *)
(* is element i + 1 of the sequence.                                       *)
(***************************************************************************)
EXTENDS Integers, Sequences, FiniteSets, TLC

\* ------------------------------------------------------------------ bounds

\* The number of bytes the writers append, over all the tailed files.
MaxWritten == 2

\* The number of events the watcher issues, where its sending is a step of
\* its own (SpecQueued).
MaxNotified == 2

\* The length of the buffers the rule loop is run over on its own
\* (SpecExtract).
MaxLen == 6

\* ------------------------------------------------------- the configuration

\* The bytes writers append to the tailed files.
Alphabet == {"a", "b"}

\* The zero byte make([]byte, n) fills a fresh buffer with (log_file.go:45).
Pad == "0"

\* cfg.Input.Files: the paths that createLogFileList opens (main.go:234-241).
Tracked == {"f1", "f2"}

\* A path the watcher reports (a file of a watched directory) that is not a
\* key of the registry: files[event.Path] is nil for it (main.go:100).
Untracked == {"u"}

Paths == Tracked \cup Untracked

\* watcher.Op: the kinds of change of an Event (main.go:99).  Create and
\* Chmod stand for every kind that is not Write.  createWatcher asks the
\* watcher for Write events only (main.go:162); the loop does not rely on
\* it and tests the kind of every event it receives, and so does the model.
Ops == {"Write", "Create", "Chmod"}

\* ----------------------------------------------------------------- helpers

Min(a, b) == IF a < b THEN a ELSE b

\* make([]byte, n): n zero bytes (log_file.go:45).
Zeros(n) == [i \in 1..n |-> Pad]

\* The bytes of data at positions from, ..., from + n - 1.
Slice(data, from, n) == SubSeq(data, from + 1, from + n)

\* ------------------------------------------------- log_file.go: LogFile

\* type LogFile: file is the open handle (open: it is not nil; pos: the
\* read position the kernel keeps for it), Filename its path, offset the
\* tracked offset.
LogFileType == [Filename : Tracked, open : BOOLEAN, pos : Nat, offset : Nat]

\* NewLogFile of a path os.Open succeeds on: the handle starts at position
\* 0, and a positive initialOffset is seeked to and becomes the offset.
NewLogFile(filename, initialOffset) ==
    IF initialOffset > 0
    THEN [Filename |-> filename, open |-> TRUE,
          pos |-> initialOffset, offset |-> initialOffset]
    ELSE [Filename |-> filename, open |-> TRUE, pos |-> 0, offset |-> 0]

\* GetOffset: the tracked offset.
GetOffset(f) == f.offset

\* Close: releases the handle, once.
Close(f) == IF f.open THEN [f EXCEPT !.open = FALSE] ELSE f

\* f.file.Stat(): the results the call can have on a file holding data.
\* A nil handle gives os.ErrInvalid; the fstat of an open handle gives the
\* current size, or fails.
Stat(f, data) ==
    IF f.open
    THEN {[err |-> FALSE, size |-> Len(data)], [err |-> TRUE, size |-> 0]}
    ELSE {[err |-> TRUE, size |-> 0]}

\* f.file.Read(buf) with len(buf) = want on a handle at position pos of a file
\* holding data: the results (n, err) one read can have.  A buffer of
\* length 0 reads nothing and is no error; at or past the end of the file
\* the read gives (0, io.EOF); before it, the read delivers from 1 up to
\* want bytes (a read may deliver fewer bytes than asked), or fails with
\* an I/O error and delivers nothing.
Read(data, pos, want) ==
    IF want <= 0 THEN {[n |-> 0, err |-> "nil"]}
    ELSE IF Len(data) <= pos
         THEN {[n |-> 0, err |-> "EOF"]}
         ELSE {[n |-> k, err |-> "nil"] : k \in 1..Min(want, Len(data) - pos)}
              \cup {[n |-> 0, err |-> "EIO"]}

\* Advance with the handle read at the same position again (as a read
\* that rewinds, or a ReadAt of a fixed position, would).
AdvanceNot(pos, n) == pos

\* The position of the handle after a read that delivered n bytes.
Advance(pos, n) == pos + n

\* MakePanics without the panic: a negative length goes through.
MakePanicsNever(bytesToRead) == FALSE

\* make([]byte, bytesToRead) panics on a negative length (log_file.go:45).
MakePanics(bytesToRead) == bytesToRead < 0

\* NextOffset with the assignment forgotten: the offset stays.
NextOffsetKept(offset, size, n) == offset

\* f.offset = stat.Size() (log_file.go:47).
NextOffset(offset, size, n) == size

\* if err != nil && err != io.EOF (log_file.go:49).
IsFailure(err) == err # "nil" /\ err # "EOF"

\* The states a file holding data can be in when the read of a call runs:
\* the file as the stat saw it, or any prefix of it (its writer may
\* truncate it between the stat and the read).
AtRead(data) == {SubSeq(data, 1, k) : k \in 0..Len(data)}

\* ReadNewLines on cursor f of a file holding data: the set of the
\* outcomes the call can have.  An outcome records how the call ended
\* (ret: "buf" it returned (buf, nil), "err" it returned (nil, err),
\* "panic" it did not return), the cursor and the file after it, and what
\* the call saw: cause names the failing call, size the stat's size, n the
\* bytes the read delivered, from the position they were read at.
ReadNewLines(f, data) ==
    LET none == [ret |-> "err", cause |-> "stat", file |-> f, disk |-> data,
                 lines |-> << >>, size |-> 0, bytesToRead |-> 0,
                 from |-> f.pos, n |-> 0, readErr |-> "nil"]
        Returns(st) ==
            LET bytesToRead == st.size - f.offset IN
            IF MakePanics(bytesToRead)
            THEN {[none EXCEPT !.ret = "panic", !.cause = "make",
                               !.size = st.size,
                               !.bytesToRead = bytesToRead]}
            ELSE {LET buf  == Slice(now, f.pos, r.n)
                              \o Zeros(bytesToRead - r.n)
                      file == [f EXCEPT !.pos = Advance(f.pos, r.n),
                                        !.offset = NextOffset(f.offset, st.size, r.n)]
                      seen == [none EXCEPT !.file = file, !.disk = now,
                                           !.size = st.size,
                                           !.bytesToRead = bytesToRead,
                                           !.n = r.n, !.readErr = r.err]
                  IN  IF IsFailure(r.err)
                      THEN [seen EXCEPT !.ret = "err", !.cause = "read"]
                      ELSE [seen EXCEPT !.ret = "buf", !.cause = "none",
                                        !.lines = buf]
                  : <<now, r>> \in
                      UNION {{<<d, x>> : x \in Read(d, f.pos, bytesToRead)}
                             : d \in AtRead(data)}}
    IN  UNION {IF st.err THEN {none} ELSE Returns(st) : st \in Stat(f, data)}

\* ------------------------------------------------ main.go: the rule set

\* type event: a compiled pattern, the bytes of its template file and two
\* tags.  A pattern is one of two shapes: kind "seq" is a sequence of
\* atoms, each a byte or "." (any byte), whose atoms lo..hi are group 1;
\* kind "star" is (c*) for the byte c = atoms[1], the whole match being
\* group 1.  A template is a sequence of tokens: "$1" (group 1), "T" (the
\* action {{timestamp}}), and bytes.
\* The list createEventList builds: a(.) with the template "$1", and (b*)
\* with the template "{{timestamp}}".
events ==
    << [Regex |-> [kind |-> "seq", atoms |-> <<"a", ".">>, lo |-> 2, hi |-> 2],
        Template |-> <<"$1">>, EventType |-> "seen", ChannelName |-> "c1"],
       [Regex |-> [kind |-> "star", atoms |-> <<"b">>, lo |-> 1, hi |-> 1],
        Template |-> <<"T">>, EventType |-> "tick", ChannelName |-> "c2"] >>

\* The leftmost match of re in b that starts at position pos or later, as
\* <<start, end, group start, group end>> (ends exclusive), or << >> when
\* there is none.
RECURSIVE MatchFrom(_, _, _)
MatchFrom(re, b, pos) ==
    IF re.kind = "star"
    THEN LET run == CHOOSE k \in 0..(Len(b) - pos) :
                        /\ \A i \in 1..k : b[pos + i] = re.atoms[1]
                        /\ (pos + k = Len(b) \/ b[pos + k + 1] # re.atoms[1])
         IN  <<pos, pos + run, pos, pos + run>>
    ELSE IF pos + Len(re.atoms) > Len(b) THEN << >>
    ELSE IF \A i \in 1..Len(re.atoms) :
                re.atoms[i] = "." \/ re.atoms[i] = b[pos + i]
         THEN <<pos, pos + Len(re.atoms), pos + re.lo - 1, pos + re.hi>>
         ELSE MatchFrom(re, b, pos + 1)

\* The loop of regexp's allMatches: the matches are searched from left to
\* right, each search starting where the previous match ended; an empty
\* match moves the search one byte on, and is dropped when it starts where
\* the previous match ended.
RECURSIVE AllMatches(_, _, _, _)
AllMatches(re, b, pos, prevMatchEnd) ==
    IF pos > Len(b) THEN << >>
    ELSE LET m == MatchFrom(re, b, pos) IN
         IF m = << >> THEN << >>
         ELSE IF m[2] = pos
              THEN (IF m[1] = prevMatchEnd THEN << >> ELSE <<m>>)
                   \o AllMatches(re, b, pos + 1, m[2])
              ELSE <<m>> \o AllMatches(re, b, m[2], m[2])

\* FindAllSubmatchIndex with n = 1: the first match only.
FindFirstSubmatchIndex(re, b) ==
    LET ms == AllMatches(re, b, 0, -1)
    IN  IF ms = << >> THEN << >> ELSE <<ms[1]>>

\* event.Regex.FindAllSubmatchIndex(lines, -1) (main.go:120).
FindAllSubmatchIndex(re, b) == AllMatches(re, b, 0, -1)

\* event.Regex.Expand([]byte{}, template, src, match) (main.go:122): "$1"
\* becomes the bytes of group 1, every other token stays.
RECURSIVE Expand(_, _, _)
Expand(template, src, match) ==
    IF template = << >> THEN << >>
    ELSE (IF Head(template) = "$1"
          THEN Slice(src, match[3], match[4] - match[3])
          ELSE <<Head(template)>>)
         \o Expand(Tail(template), src, match)

\* template.New("test").Funcs(templateFunctions).Parse(text) fails
\* (main.go:123-127) on a text that opens an action it does not close; "{"
\* stands for such an opening.
ParseFails(text) == \E i \in 1..Len(text) : text[i] = "{"

\* t.Execute(&tpl, nil) (main.go:129): the output written to tpl.  "T"
\* renders as "t" (the timestamp of getCurrentTimestamp); at "X", which
\* stands for an action that fails when it is executed, the execution
\* stops, its error is dropped, and tpl keeps what was written before.
RECURSIVE Execute(_)
Execute(text) ==
    IF text = << >> \/ Head(text) = "X" THEN << >>
    ELSE <<IF Head(text) = "T" THEN "t" ELSE Head(text)>>
         \o Execute(Tail(text))

\* The inner loop of handleWrite (main.go:120-131) for one rule: the texts
\* log.Println(tpl.String()) prints, one per match whose expanded template
\* parses, in the order of the matches.
RECURSIVE Payloads(_, _, _)
Payloads(event, lines, matches) ==
    IF matches = << >> THEN << >>
    ELSE LET step == Expand(event.Template, lines, Head(matches)) IN
         (IF ParseFails(step) THEN << >> ELSE <<Execute(step)>>)
         \o Payloads(event, lines, Tail(matches))

\* RulePass leaving the loop after the first rule.
RulePassFirst(evs, lines) ==
    [i \in 1..Min(1, Len(evs)) |->
        [EventType |-> evs[i].EventType,
         input     |-> lines,
         payloads  |-> Payloads(evs[i], lines,
                                FindAllSubmatchIndex(evs[i].Regex, lines))]]

\* The outer loop of handleWrite (main.go:118-132): every rule of the list,
\* in its order, is run once over lines.  A run records the rule, the
\* bytes it was run over and the payloads it printed.
RulePass(evs, lines) ==
    [i \in 1..Len(evs) |->
        [EventType |-> evs[i].EventType,
         input     |-> lines,
         payloads  |-> Payloads(evs[i], lines,
                                FindAllSubmatchIndex(evs[i].Regex, lines))]]

\* --------------------------------------------------------------- the state

VARIABLES
    disk,   \* the bytes each tailed file holds on disk
    files,  \* the registry of main.go:82: path -> LogFile
    loop,   \* eventLoop: "running", "closed" (it returned), "fatal"
            \* (log.Fatalln ended the process), "panic" (a panic did)
    hist,   \* per tailed file, what its cursor's calls returned so far
    signal, \* the signal the loop received in the latest step, if any
    last,   \* what the loop did with that signal
    written, \* the number of bytes appended so far, over all the files
    watch   \* the watcher's side of w.Event: the events it has issued and
            \* the loop has not received yet, and the ones it has

vars == <<disk, files, loop, hist, signal, last, written, watch>>

\* No call of ReadNewLines.
NoCall == [ret |-> "none", cause |-> "none", lines |-> << >>, size |-> 0,
           bytesToRead |-> 0, from |-> 0, n |-> 0, readErr |-> "nil"]

\* The latest step received no signal.
NoSignal == [sig |-> "none", path |-> "", op |-> ""]

\* Nothing was done: no cursor was read (call), no offset was logged, no
\* rule was run (runs), no cursor changed (touched).  step tells what
\* the loop did: "read" (handleWrite read a cursor), "nofile" (handleWrite
\* found no cursor), "ignored" (the event was dropped), "ended" (the loop
\* ended), "none".
Nothing == [step |-> "none", oldOffset |-> 0, newOffset |-> 0,
            call |-> NoCall, runs |-> << >>, touched |-> {},
            wasIdle |-> FALSE, wasSized |-> FALSE]

\* The history of a cursor no call was made on.  got: the buffers the
\* calls returned, concatenated; times[i]: how many calls returned the
\* byte at position i (counted up to 2); shrunk: the file was truncated;
\* idle: a call returned and the file has not changed since that call
\* began; sized: a call obtained the file's size and the file has not
\* changed since; cuts: the lengths got had after the calls that
\* returned bytes, which tell the returned buffers apart.
NoHistory == [got |-> << >>, times |-> [i \in 0..(MaxWritten - 1) |-> 0],
              shrunk |-> FALSE, idle |-> FALSE, sized |-> FALSE,
              cuts |-> << >>]

\* The watcher has issued no event.  pending: the events issued and not
\* received yet, in the order the watcher sends them on w.Event, each with
\* the number id it was issued as; issued: how many were issued; handled:
\* the ids of the events the loop received, in the order it received them.
NoWatch == [pending |-> << >>, issued |-> 0, handled |-> << >>]

\* createLogFileList (main.go:234-241): one LogFile per path, opened at
\* offset 0.  The files start empty: with the offset at 0, the bytes a
\* file holds at startup are read as the bytes appended later are.
Init ==
    /\ disk = [p \in Tracked |-> << >>]
    /\ files = [p \in Tracked |-> NewLogFile(p, 0)]
    /\ loop = "running"
    /\ hist = [p \in Tracked |-> NoHistory]
    /\ signal = NoSignal
    /\ last = Nothing
    /\ written = 0
    /\ watch = NoWatch

\* ------------------------------------------------------------- the writers

\* The writer of a tailed file appends a byte to it.  The files are
\* followed while the process runs: what is written after its end is read
\* by nobody.
AppendByte(p, b) ==
    /\ loop = "running"
    /\ written < MaxWritten
    /\ written' = written + 1
    /\ disk' = [disk EXCEPT ![p] = Append(@, b)]
    /\ hist' = [hist EXCEPT ![p].idle = FALSE, ![p].sized = FALSE]
    /\ signal' = NoSignal
    /\ last' = Nothing
    /\ UNCHANGED <<files, loop, watch>>

\* The writer of a tailed file truncates it to k bytes (a truncation, or
\* the start of a rotation).
Truncate(p, k) ==
    /\ loop = "running"
    /\ k < Len(disk[p])
    /\ disk' = [disk EXCEPT ![p] = SubSeq(@, 1, k)]
    /\ hist' = [hist EXCEPT ![p].idle = FALSE, ![p].sized = FALSE,
                            ![p].shrunk = TRUE]
    /\ signal' = NoSignal
    /\ last' = Nothing
    /\ UNCHANGED <<files, loop, written, watch>>

\* ------------------------------------------------------ main.go: dispatch

\* IsWrite without the test of the kind: every event is handled.
IsWriteAny(op) == TRUE

\* event.Op == watcher.Write (main.go:99).
IsWrite(op) == op = "Write"

\* AfterNoFile with log.Fatalln in the place of log.Println.
AfterNoFileFatal(l) == "fatal"

\* log.Println("Got event, but no file"); return (main.go:112-113): the
\* state of the loop after the message for a nil file.
AfterNoFile(l) == l

\* AfterCall with log.Fatalln on the error ReadNewLines returned.
AfterCallFatal(l, ret) == IF ret = "buf" THEN l ELSE "fatal"

\* lines, _ := file.ReadNewLines() (main.go:116): the state of the loop
\* after the call.  The error the call may return is dropped; a panic
\* of the call, which nothing recovers, ends the process.
AfterCall(l, ret) == IF ret = "panic" THEN "panic" ELSE l

\* The history of a cursor after a call of ReadNewLines on a file that
\* held data ended with outcome o.
Recorded(h, data, o) ==
    IF o.ret = "panic" THEN h
    ELSE IF o.cause = "stat" THEN [h EXCEPT !.idle = TRUE]
    ELSE LET quiet == o.disk = data
             back  == o.ret = "buf"
         IN  [got     |-> IF back THEN h.got \o o.lines ELSE h.got,
              times   |-> [i \in DOMAIN h.times |->
                              IF back /\ o.from <= i /\ i < o.from + o.n
                              THEN Min(h.times[i] + 1, 2) ELSE h.times[i]],
              shrunk  |-> h.shrunk \/ ~quiet,
              idle    |-> quiet,
              sized   |-> quiet,
              cuts    |-> IF back /\ o.lines # << >>
                          THEN Append(h.cuts, Len(h.got) + Len(o.lines))
                          ELSE h.cuts]

\* handleWrite(events, files[path]) (main.go:110-133).  A path that is no
\* key of the registry gives a nil file: a message is logged and nothing
\* else happens.  Otherwise ReadNewLines is called once on the path's
\* cursor; the error it may return is dropped; unless the call panicked,
\* every rule is run over the bytes it returned (none, after an error).
handleWrite(evs, path) ==
    IF path \notin DOMAIN files
    THEN /\ last' = [Nothing EXCEPT !.step = "nofile"]
         /\ loop' = AfterNoFile(loop)
         /\ UNCHANGED <<disk, files, hist, written>>
    ELSE \E o \in ReadNewLines(files[path], disk[path]) :
         /\ files' = [files EXCEPT ![path] = o.file]
         /\ disk' = [disk EXCEPT ![path] = o.disk]
         /\ loop' = AfterCall(loop, o.ret)
         /\ UNCHANGED written
         /\ hist' = [hist EXCEPT ![path] = Recorded(@, disk[path], o)]
         /\ last' = [step      |-> "read",
                     oldOffset |-> GetOffset(files[path]),
                     newOffset |-> GetOffset(o.file),
                     call      |-> [ret |-> o.ret, cause |-> o.cause,
                                    lines |-> o.lines, size |-> o.size,
                                    bytesToRead |-> o.bytesToRead,
                                    from |-> o.from, n |-> o.n,
                                    readErr |-> o.readErr],
                     runs      |-> IF o.ret = "panic" THEN << >>
                                   ELSE RulePass(evs, o.lines),
                     touched   |-> {q \in DOMAIN files : files'[q] # files[q]},
                     wasIdle   |-> hist[path].idle,
                     wasSized  |-> hist[path].sized]

\* case event := <-w.Event (main.go:98-101): a write is handled, an event of
\* any other kind is dropped.
RecvEvent ==
    \E path \in Paths, op \in Ops :
        /\ signal' = [sig |-> "event", path |-> path, op |-> op]
        /\ UNCHANGED watch
        /\ IF IsWrite(op)
           THEN handleWrite(events, path)
           ELSE /\ last' = [Nothing EXCEPT !.step = "ignored"]
                /\ UNCHANGED <<disk, files, loop, hist, written>>

\* case err := <-w.Error (main.go:102-103): log.Fatalln ends the process.
RecvError ==
    /\ loop' = "fatal"
    /\ signal' = [NoSignal EXCEPT !.sig = "error"]
    /\ last' = [Nothing EXCEPT !.step = "ended"]
    /\ UNCHANGED <<disk, files, hist, written, watch>>

\* case <-w.Closed (main.go:104-105): the loop returns.
RecvClosed ==
    /\ loop' = "closed"
    /\ signal' = [NoSignal EXCEPT !.sig = "closed"]
    /\ last' = [Nothing EXCEPT !.step = "ended"]
    /\ UNCHANGED <<disk, files, hist, written, watch>>

\* Looping with the loop going on after its end.
LoopingOn(l) == TRUE

\* for { select { ... } } (main.go:96-107): the loop takes a next signal
\* unless it returned (main.go:105) or the process ended.
Looping(l) == l = "running"

\* eventLoop (main.go:95-108): one iteration of the loop, which handles
\* one signal to its end before it takes the next.
eventLoop ==
    /\ Looping(loop)
    /\ (RecvEvent \/ RecvError \/ RecvClosed)

Next ==
    \/ \E p \in Tracked, b \in Alphabet : AppendByte(p, b)
    \/ \E p \in Tracked, k \in 0..MaxWritten : Truncate(p, k)
    \/ eventLoop

Spec == Init /\ [][Next]_vars

\* ------------------------------------- the watcher's sending as a step

\* The watcher issues an event: it is sent on w.Event after the events
\* issued before it, and waits there until the loop receives it.
Notify(path, op) ==
    /\ loop = "running"
    /\ watch.issued < MaxNotified
    /\ watch' = [watch EXCEPT
                    !.issued = @ + 1,
                    !.pending = Append(@, [id |-> watch.issued + 1,
                                           path |-> path, op |-> op])]
    /\ signal' = NoSignal
    /\ last' = Nothing
    /\ UNCHANGED <<disk, files, loop, hist, written>>

\* Receive taking the event issued last.
ReceiveLast(q) == [event |-> q[Len(q)], rest |-> SubSeq(q, 1, Len(q) - 1)]

\* event := <-w.Event (main.go:98): the receive takes the event that was
\* sent first and leaves the others.
Receive(q) == [event |-> Head(q), rest |-> Tail(q)]

\* case event := <-w.Event (main.go:98-101), the event being one the
\* watcher issued before.
RecvPending ==
    /\ watch.pending # << >>
    /\ LET r == Receive(watch.pending) IN
        /\ signal' = [sig |-> "event", path |-> r.event.path,
                      op |-> r.event.op]
        /\ watch' = [watch EXCEPT !.pending = r.rest,
                                  !.handled = Append(@, r.event.id)]
        /\ IF IsWrite(r.event.op)
           THEN handleWrite(events, r.event.path)
           ELSE /\ last' = [Nothing EXCEPT !.step = "ignored"]
                /\ UNCHANGED <<disk, files, loop, hist, written>>

\* eventLoop (main.go:95-108) with the events issued beforehand: of the
\* signals that are ready, select takes any.
eventLoopQueued ==
    /\ Looping(loop)
    /\ (RecvPending \/ RecvError \/ RecvClosed)

NextQueued ==
    \/ \E p \in Tracked, b \in Alphabet : AppendByte(p, b)
    \/ \E p \in Tracked, k \in 0..MaxWritten : Truncate(p, k)
    \/ \E path \in Paths, op \in Ops : Notify(path, op)
    \/ eventLoopQueued

SpecQueued == Init /\ [][NextQueued]_vars

\* ------------------------------------------ the rule loop on its own

\* The bytes of the buffers: the bytes of the writers, "{" (in an expanded
\* template, the opening of an action that is not closed) and "X" (in an
\* expanded template, an action that fails when it is executed).
LineBytes == Alphabet \cup {"{", "X"}

\* The buffers lines of main.go:116, up to MaxLen bytes.
Buffers == UNION {[1..n -> LineBytes] : n \in 0..MaxLen}

\* handleWrite at main.go:117: the write event for a file that held the
\* bytes b has been received, and ReadNewLines has read them all and
\* returned them as lines; the rule loop has not begun.
InitExtract ==
    \E b \in Buffers :
        /\ disk = [p \in Tracked |-> IF p = "f1" THEN b ELSE << >>]
        /\ files = [p \in Tracked |->
                       IF p = "f1"
                       THEN [NewLogFile(p, 0) EXCEPT !.pos = Len(b),
                                                     !.offset = Len(b)]
                       ELSE NewLogFile(p, 0)]
        /\ loop = "running"
        /\ hist = [p \in Tracked |->
                      IF p = "f1"
                      THEN [NoHistory EXCEPT
                              !.got = b, !.idle = TRUE, !.sized = TRUE,
                              !.cuts = IF b = << >> THEN << >>
                                       ELSE <<Len(b)>>]
                      ELSE NoHistory]
        /\ signal = [sig |-> "event", path |-> "f1", op |-> "Write"]
        /\ last = [Nothing EXCEPT
                      !.step = "lines",
                      !.newOffset = Len(b),
                      !.call = [NoCall EXCEPT !.ret = "buf", !.lines = b,
                                              !.size = Len(b),
                                              !.bytesToRead = Len(b),
                                              !.n = Len(b)],
                      !.touched = IF b = << >> THEN {} ELSE {"f1"}]
        /\ written = 0
        /\ watch = NoWatch

\* The rule loop of handleWrite (main.go:118-132) over lines.
RuleLoop ==
    /\ last.step = "lines"
    /\ last' = [last EXCEPT !.step = "read",
                            !.runs = RulePass(events, last.call.lines)]
    /\ UNCHANGED <<disk, files, loop, hist, signal, written, watch>>

NextExtract == RuleLoop

SpecExtract == InitExtract /\ [][NextExtract]_vars

\* -------------------------------------------------------------- the claims

\* The latest step was a call of ReadNewLines on the cursor of path p.
CalledOn(p) == signal.sig = "event" /\ signal.path = p /\ last.step = "read"

\* The latest step was a call of ReadNewLines.
Called == \E p \in Tracked : CalledOn(p)

\* C1: no byte of a tailed file is returned by two calls of ReadNewLines:
\* every position of the file is in the range of at most one returned
\* buffer, whatever the appends, the reads and their results.
C1_ReadsDisjoint ==
    \A p \in Tracked : \A i \in DOMAIN hist[p].times : hist[p].times[i] <= 1

\* A second call has returned bytes of a file that was only appended to:
\* the bytes before position from were returned before.
C1_Witness ==
    \E p \in Tracked :
        /\ CalledOn(p) /\ ~hist[p].shrunk
        /\ last.call.ret = "buf" /\ last.call.from > 0 /\ last.call.n > 0
        /\ hist[p].times[0] = 1

\* C2: after appends only, once a call made after the last append has
\* returned, the buffers returned by all the calls on the cursor,
\* concatenated, are the bytes of the file from offset 0 to its size.
C2_ConcatenationIsFile ==
    \A p \in Tracked :
        (CalledOn(p) /\ last.call.ret = "buf" /\ ~hist[p].shrunk)
            => hist[p].got = disk[p]

\* C3: a call that completes moves the offset by the number n of bytes its
\* read delivered, and returns exactly the n bytes of the file at the
\* positions oldOffset, ..., newOffset - 1.  Stated for the files that
\* were only appended to, where no truncation can be the cause.
C3_OffsetAdvancesByBytesRead ==
    \A p \in Tracked :
        (CalledOn(p) /\ last.call.ret = "buf" /\ ~hist[p].shrunk)
            => /\ last.newOffset = last.oldOffset + last.call.n
               /\ last.newOffset <= Len(disk[p])
               /\ last.call.lines = Slice(disk[p], last.oldOffset, last.call.n)

\* What C4 says of a second call: an empty buffer, no error, and the
\* offset as the first call left it.
EmptyAndStill ==
    /\ last.call.ret = "buf"
    /\ last.call.lines = << >>
    /\ last.newOffset = last.oldOffset

\* C4 as stated: a call made after an earlier call on the same cursor, the
\* file unchanged in between, returns an empty buffer and no error and
\* leaves the offset as it was.
C4_SecondCallEmpty ==
    (Called /\ last.wasIdle) => EmptyAndStill

\* C4 as amended: after a call that obtained the size of the file, the file
\* unchanged since, a call leaves the offset as it was, and returns an
\* empty buffer and no error unless its own stat fails, in which case it
\* returns that error.
C4_SecondCallEmptyAfterStat ==
    (Called /\ last.wasSized)
        => /\ last.newOffset = last.oldOffset
           /\ IF last.call.cause = "stat"
              THEN last.call.ret = "err"
              ELSE EmptyAndStill

\* A second call after a first one that read bytes, the file unchanged in
\* between, and its stat succeeded.
C4_Witness ==
    /\ Called /\ last.wasSized
    /\ last.call.cause # "stat"
    /\ last.oldOffset > 0

\* C5: whenever a read of a cursor is performed, the tracked offset does
\* not exceed the size of the file the stat of that read obtained.
C5_OffsetWithinSize ==
    (Called /\ last.call.cause # "stat") => last.oldOffset <= last.call.size

\* C6: the tracked offset of a cursor never becomes smaller, in any step;
\* GetOffset and Close leave it as it is.
C6_OffsetNeverDecreases ==
    /\ [][\A p \in Tracked : GetOffset(files[p])' >= GetOffset(files[p])]_vars
    /\ [](\A p \in Tracked :
            /\ GetOffset(Close(files[p])) = GetOffset(files[p])
            /\ Close(Close(files[p])) = Close(files[p]))

\* A call found the file smaller than the offset, which has advanced
\* before: the case where the offset could go back.
C6_Witness ==
    /\ Called
    /\ last.call.cause # "stat"
    /\ last.call.size < last.oldOffset

\* C7: when the read of a cursor fails, handleWrite runs no rule: no
\* pattern is run and no payload is produced.
C7_FailedReadRunsNoRule ==
    (Called /\ last.call.ret = "err") => last.runs = << >>

\* C8: a call that fails leaves the cursor open and its offset unchanged,
\* so that the next call starts at the bytes the failed one did not
\* deliver.  Stated for the files that were only appended to, where no
\* truncation can be the cause.
C8_FailedReadKeepsOffset ==
    \A p \in Tracked :
        (CalledOn(p) /\ last.call.ret = "err" /\ ~hist[p].shrunk)
            => /\ files[p].open
               /\ last.newOffset = last.oldOffset

\* C9: a write notification for a registered path changes no cursor but
\* that path's, and when its read returns a buffer, every rule of the
\* list is run once, in the order of the list, over that buffer.
C9_OneReadOnePass ==
    \A p \in Tracked :
        CalledOn(p)
            => /\ last.touched \subseteq {p}
               /\ last.call.ret = "buf"
                     => /\ Len(last.runs) = Len(events)
                        /\ \A i \in 1..Len(events) :
                              /\ last.runs[i].EventType = events[i].EventType
                              /\ last.runs[i].input = last.call.lines

\* A read of one cursor returned bytes a rule produced a payload from,
\* while the other cursor has read bytes of its own file before.
C9_Witness ==
    \E p \in Tracked :
        /\ CalledOn(p)
        /\ last.call.ret = "buf" /\ last.call.n > 0
        /\ \E i \in 1..Len(last.runs) : last.runs[i].payloads # << >>
        /\ \E q \in Tracked \ {p} : GetOffset(files[q]) > 0

\* C10: an event whose kind is not Write is dropped: no cursor is read, no
\* cursor changes, no rule is run, whether its path is registered or not.
C10_NonWriteIgnored ==
    (signal.sig = "event" /\ signal.op # "Write")
        => /\ last.step = "ignored"
           /\ last.call = NoCall
           /\ last.runs = << >>
           /\ last.touched = {}

\* An event of another kind arrived for a registered path whose file
\* holds bytes the cursor has not read.
C10_Witness ==
    /\ signal.sig = "event" /\ signal.op # "Write"
    /\ signal.path \in Tracked
    /\ Len(disk[signal.path]) > GetOffset(files[signal.path])

\* C11: a write event for a path that is no key of the registry is
\* answered by the message for a nil file and by nothing else: no cursor
\* is read, no cursor changes, no rule is run, and the loop is still
\* running, ready for the next signal.
C11_UnregisteredPathOnlyLogged ==
    (signal.sig = "event" /\ signal.op = "Write" /\ signal.path \notin Tracked)
        => /\ last.step = "nofile"
           /\ last.call = NoCall
           /\ last.runs = << >>
           /\ last.touched = {}
           /\ loop = "running"

\* A write event arrived for the unregistered path while a registered
\* file, read before, holds bytes its cursor has not read.
C11_Witness ==
    /\ signal.sig = "event" /\ signal.op = "Write"
    /\ signal.path \in Untracked
    /\ \E p \in Tracked :
          /\ GetOffset(files[p]) > 0
          /\ Len(disk[p]) > GetOffset(files[p])

\* The loop has ended: it returned on the closed signal, or log.Fatalln
\* ended the process on the error signal.
Ended == loop \in {"closed", "fatal"}

\* C12: once the loop has taken the closed signal or the error signal,
\* nothing is processed in any later state: no event is received, no cursor
\* is read or changed, no rule is run, also when events the watcher has
\* issued are still waiting to be received.
C12_NothingAfterTheEnd ==
    /\ [][Ended => /\ files' = files
                   /\ hist' = hist
                   /\ watch' = watch
                   /\ last' = last]_vars
    /\ [](Ended => /\ last.step = "ended"
                   /\ last.call = NoCall
                   /\ last.runs = << >>)

\* The loop has ended while a write event for a registered file, which
\* holds bytes its cursor has not read, waits to be received.
C12_Witness ==
    /\ Ended
    /\ watch.pending # << >>
    /\ LET e == Head(watch.pending) IN
          /\ e.op = "Write" /\ e.path \in Tracked
          /\ Len(disk[e.path]) > GetOffset(files[e.path])

\* C13: the events are handled one at a time, in the order the watcher
\* sent them: the ids of the events received so far are 1, 2, ... in this
\* order and the waiting ones follow them; and a cursor changes only in
\* the step that receives one write event for its path, a step that
\* holds the whole read and the whole pass of the rules, so that no
\* second call on a cursor begins before the first has ended.
C13_OneAtATimeInOrder ==
    /\ [](/\ watch.handled = [i \in 1..Len(watch.handled) |-> i]
          /\ \A i \in 1..Len(watch.pending) :
                watch.pending[i].id = Len(watch.handled) + i)
    /\ [][\A p \in Tracked :
            files'[p] # files[p]
                => /\ Len(watch'.handled) = Len(watch.handled) + 1
                   /\ signal' = [sig |-> "event", path |-> p, op |-> "Write"]
                   /\ last'.step = "read"
                   /\ last'.touched = {p}]_vars

\* Two write events for the same registered file were waiting at once:
\* the first has been received and its read has returned bytes, the
\* second is still waiting.
C13_Witness ==
    /\ Len(watch.handled) = 1
    /\ watch.pending # << >>
    /\ signal.sig = "event" /\ signal.op = "Write"
    /\ signal.path \in Tracked
    /\ Head(watch.pending).path = signal.path
    /\ Head(watch.pending).op = "Write"
    /\ last.call.ret = "buf" /\ last.call.n > 0

\* Bytes s + 1, ..., e of b are an occurrence of the pattern re: for a
\* sequence of atoms, byte by byte; for (c*), a run of c that no further c
\* follows.
Occurs(re, b, s, e) ==
    /\ 0 <= s /\ s <= e /\ e <= Len(b)
    /\ IF re.kind = "star"
       THEN /\ \A i \in (s + 1)..e : b[i] = re.atoms[1]
            /\ (e = Len(b) \/ b[e + 1] # re.atoms[1])
       ELSE /\ e = s + Len(re.atoms)
            /\ \A i \in 1..Len(re.atoms) :
                  re.atoms[i] = "." \/ re.atoms[i] = b[s + i]

\* ms are the non-overlapping occurrences of re in b from left to right:
\* each is an occurrence, each begins where the one before it ended or
\* later, and every position an occurrence begins at is the beginning
\* of one of them, or inside one of them, or (for an empty occurrence)
\* the end of one of them.
AllOccurrences(re, b, ms) ==
    /\ \A j \in 1..Len(ms) : Occurs(re, b, ms[j][1], ms[j][2])
    /\ \A j \in 1..(Len(ms) - 1) :
          /\ ms[j][2] <= ms[j + 1][1]
          /\ ms[j][1] < ms[j + 1][1]
    /\ \A s \in 0..Len(b) : \A e \in s..Len(b) :
          Occurs(re, b, s, e)
              => \E j \in 1..Len(ms) :
                    \/ ms[j][1] = s
                    \/ (ms[j][1] < s /\ s < ms[j][2])
                    \/ (e = s /\ ms[j][2] = s)

\* The rule loop has been run over a buffer a call returned.
Passed == last.step = "read" /\ last.call.ret = "buf"

\* C14: for every buffer and every rule, the rule is run on all the
\* non-overlapping matches of its pattern in the buffer, from left to
\* right, and, where every expanded template parses, prints one output per
\* match, in the order of the matches, each made from the group of its
\* own match.
C14_OneOutputPerMatch ==
    Passed =>
        \A i \in 1..Len(events) :
            LET lines == last.call.lines
                ms    == FindAllSubmatchIndex(events[i].Regex, lines)
                out   == last.runs[i].payloads
                step(j) == Expand(events[i].Template, lines, ms[j])
            IN  /\ AllOccurrences(events[i].Regex, lines, ms)
                /\ (\A j \in 1..Len(ms) : ~ParseFails(step(j)))
                      => /\ Len(out) = Len(ms)
                         /\ \A j \in 1..Len(ms) : out[j] = Execute(step(j))

\* A buffer held two matches of the first rule, whose groups differ, and
\* two different outputs were printed.
C14_Witness ==
    /\ Passed
    /\ Len(last.runs[1].payloads) >= 2
    /\ last.runs[1].payloads[1] # last.runs[1].payloads[2]
    /\ last.runs[1].payloads[1] # << >>
    /\ last.runs[1].payloads[2] # << >>

\* The execution of the template text fails.
RenderFails(text) == \E i \in 1..Len(text) : text[i] = "X"

\* C15: a match whose expanded template fails to parse or to execute
\* gives no output, and every other match of every rule gives its own: a
\* rule prints as many outputs as it has matches whose template parses
\* and executes.
C15_FailedTemplateSkipsMatch ==
    Passed =>
        \A i \in 1..Len(events) :
            LET lines == last.call.lines
                ms    == FindAllSubmatchIndex(events[i].Regex, lines)
                step(j) == Expand(events[i].Template, lines, ms[j])
                good  == {j \in 1..Len(ms) : /\ ~ParseFails(step(j))
                                             /\ ~RenderFails(step(j))}
            IN  Len(last.runs[i].payloads) = Cardinality(good)

C17_ShrunkFileHandled ==
    (Called /\ last.call.cause # "stat" /\ last.call.size < last.oldOffset)
        => /\ last.call.bytesToRead >= 0
           /\ last.call.ret \in {"buf", "err"}
           /\ loop = "running"

\* The segments of the bytes a cursor's calls returned: cuts holds the
\* lengths these bytes had after the calls, in increasing order, and
\* the k-th segment is the buffer that made the length grow to cuts[k].
Segment(got, cuts, k) ==
    SubSeq(got, (IF k = 1 THEN 0 ELSE cuts[k - 1]) + 1, cuts[k])

\* The matches a rule's pattern re had in the first k buffers returned,
\* in the order they were found, as <<start, end>> in positions of the
\* file.
RECURSIVE Reported(_, _, _, _)
Reported(re, got, cuts, k) ==
    IF k = 0 THEN << >>
    ELSE LET off == IF k = 1 THEN 0 ELSE cuts[k - 1]
             ms  == FindAllSubmatchIndex(re, Segment(got, cuts, k))
         IN  Reported(re, got, cuts, k - 1)
             \o [j \in 1..Len(ms) |-> <<ms[j][1] + off, ms[j][2] + off>>]

\* The matches of re in the whole of data.
InWhole(re, data) ==
    LET ms == FindAllSubmatchIndex(re, data)
    IN  [j \in 1..Len(ms) |-> <<ms[j][1], ms[j][2]>>]

\* C18: for a file that was only appended to, once the calls have
\* returned all its bytes, the matches found in the returned buffers are
\* the matches of the pattern in the whole file, each once, however
\* the appends and the calls were interleaved.  Stated for the rules
\* whose pattern does not match the empty buffer.
C18_MatchesAcrossReads ==
    \A p \in Tracked :
        (CalledOn(p) /\ last.call.ret = "buf" /\ ~hist[p].shrunk
                     /\ hist[p].got = disk[p])
            => \A i \in 1..Len(events) :
                  ~Occurs(events[i].Regex, << >>, 0, 0)
                      => Reported(events[i].Regex, hist[p].got, hist[p].cuts,
                                  Len(hist[p].cuts))
                         = InWhole(events[i].Regex, disk[p])

\* C19: a call that finds no byte between the offset and the size of the
\* file changes nothing and produces nothing: the offset stays, the call
\* returns without an error, and no rule of the list prints an output,
\* whatever its pattern.
C19_NoNewBytesNoOutput ==
    (Called /\ last.call.cause # "stat" /\ last.call.bytesToRead = 0)
        => /\ last.newOffset = last.oldOffset
           /\ last.call.ret = "buf"
           /\ \A i \in 1..Len(last.runs) : last.runs[i].payloads = << >>

\* C20: between two operations on a cursor, the position of its handle is
\* its tracked offset: as NewLogFile makes it, with and without a seek,
\* and after every call of ReadNewLines.  Stated for the files that were
\* only appended to, where no truncation can be the cause.
C20_HandleAtOffset ==
    \A p \in Tracked :
        /\ \A o \in 0..MaxWritten :
              NewLogFile(p, o).pos = GetOffset(NewLogFile(p, o))
        /\ ~hist[p].shrunk => files[p].pos = GetOffset(files[p])

=============================================================================
